---- MODULE Spec2Model ----
(***************************************************************************)
(* Node-style module resolution of src/temp/loadConfigFromFile.ts:         *)
(* tryNodeResolve and resolveDeepImport, with the package data, the        *)
(* filesystem and the pre-bundling coordinator they call.                  *)
(*                                                                         *)
(* Strings are sequences of tokens.  A token is either a run of word       *)
(* characters (\w, e.g. "node_modules") or one punctuation character       *)
(* ("/", ".", "@", ":", "?", "#", "*", "\0").  Every regular expression    *)
(* and path function of the source only distinguishes these classes, so    *)
(* it is evaluated on the tokens as it is on the characters.               *)
(***************************************************************************)
EXTENDS Integers, Sequences, FiniteSets, TLC

\* ------------------------------------------------------------------ values
\* JavaScript undefined / null / false and strings, kept apart by a tag.
Undef == [t |-> "undefined"]
Null == [t |-> "null"]
False == [t |-> "false"]
Str(s) == [t |-> "string", s |-> s]
IsStr(v) == v.t = "string"
\* JavaScript truthiness of the values above (a string is truthy unless empty)
Truthy(v) == IsStr(v) /\ v.s # <<>>

\* F applied to the value of e, with e evaluated once
Bind(e, F(_)) == CHOOSE v \in {F(x) : x \in {e}} : TRUE

NUL == "\\0"
Punct == {"/", ".", "@", ":", "?", "#", "*", "&", "=", "-", "'", "\"", " ", NUL}
IsWord(tok) == tok \notin Punct

\* s.startsWith(p)
StartsWith(s, p) == Len(s) >= Len(p) /\ SubSeq(s, 1, Len(p)) = p
\* s.slice(n) with n counted in tokens
Slice(s, n) == SubSeq(s, n + 1, Len(s))
\* the positions at which p occurs in s
Occurrences(s, p) == {i \in 1..(Len(s) - Len(p) + 1) : SubSeq(s, i, i + Len(p) - 1) = p}
\* s.includes(p)
Includes(s, p) == Occurrences(s, p) # {}
Min(S) == CHOOSE x \in S : \A y \in S : x <= y
Max(S) == CHOOSE x \in S : \A y \in S : x >= y
\* the positions of token c in s
Positions(s, c) == {i \in 1..Len(s) : s[i] = c}

\* ------------------------------------------------------- node:path (posix)
isAbsolute(p) == Len(p) >= 1 /\ p[1] = "/"
\* path.dirname
dirname(p) ==
    LET sl == Positions(p, "/")
    IN IF sl = {} THEN <<".">>
       ELSE IF Max(sl) = 1 THEN <<"/">>
       ELSE SubSeq(p, 1, Max(sl) - 1)
\* path.basename
basename(p) ==
    LET sl == Positions(p, "/")
    IN IF sl = {} THEN p ELSE Slice(p, Max(sl))
\* path.extname: from the last "." of the basename, unless that is its first character
extname(p) ==
    LET b == basename(p)
        dots == Positions(b, ".") \ {1}
    IN IF dots = {} THEN <<>> ELSE Slice(b, Max(dots) - 1)
\* path.join(dir, rel) for a relative id "./x", "x" or "."
join(dir, rel) ==
    IF rel = <<".">> THEN dir
    ELSE IF StartsWith(rel, <<".", "/">>) THEN dir \o <<"/">> \o Slice(rel, 2)
    ELSE dir \o <<"/">> \o rel

\* --------------------------------------------------------------- src regexes
\* postfixRE = /[?#].*$/s ; cleanUrl(url) = url.replace(postfixRE, '')
cleanUrl(url) ==
    LET q == Positions(url, "?") \cup Positions(url, "#")
    IN IF q = {} THEN url ELSE SubSeq(url, 1, Min(q) - 1)

\* deepImportRE = /^([^@][^/]*)\/|^(@[^/]+\/[^/]+)\//
\* the captured group (group 1 or group 2), or <<>> when the id does not match
deepMatchGroup(id) ==
    LET sl == Positions(id, "/")
        after1 == {i \in sl : i >= 2}
        \* second alternative: "@", one or more non-slashes, "/", one or more non-slashes, "/"
        later == IF sl = {} THEN {} ELSE {k \in sl : k > Min(sl)}
    IN IF id = <<>> THEN <<>>
       ELSE IF id[1] # "@"
            THEN (IF after1 = {} THEN <<>> ELSE SubSeq(id, 1, Min(after1) - 1))
       ELSE IF sl = {} \/ Min(sl) < 3 \/ later = {} THEN <<>>
       ELSE IF Min(later) < Min(sl) + 2 THEN <<>>
       ELSE SubSeq(id, 1, Min(later) - 1)
deepMatch(id) == deepMatchGroup(id) # <<>>

\* bareImportRE = /^[\w@](?!.*:\/\/)/
bareImportRE(id) ==
    /\ id # <<>>
    /\ (IsWord(id[1]) \/ id[1] = "@")
    /\ ~Includes(Slice(id, 1), <<":", "/", "/">>)

browserExternalId == <<"__vite", "-", "browser", "-", "external">>
optionalPeerDepId == <<"__vite", "-", "optional", "-", "peer", "-", "dep">>

DEFAULT_EXTENSIONS == << <<".", "mjs">>, <<".", "js">>, <<".", "mts">>, <<".", "ts">>,
                         <<".", "jsx">>, <<".", "tsx">>, <<".", "json">> >>
DEFAULT_MAIN_FIELDS == << <<"module">>, <<"jsnext", ":", "main">>, <<"jsnext">> >>

\* a subset of node's builtinModules plus the names listed in the source
builtins == { <<"fs">>, <<"path">>, <<"fs", "/", "promises">>, <<"wasi">> }
NODE_BUILTIN_NAMESPACE == <<"node", ":">>
isBuiltin(id) ==
    (IF StartsWith(id, NODE_BUILTIN_NAMESPACE)
     THEN Slice(id, Len(NODE_BUILTIN_NAMESPACE)) ELSE id) \in builtins
\* ------------------------------------------------------------- the world
\* The project, its dependency store and the files on disk.
root == <<"/", "p">>
NM(parent, name) == parent \o <<"/", "node_modules", "/">> \o name
File(dir, rel) == dir \o <<"/">> \o rel

expDir == NM(root, <<"exp">>)
strDir == NM(root, <<"str">>)
plainDir == NM(root, <<"plain">>)
barDir == NM(root, <<"@", "s", "/", "bar">>)
styDir == NM(root, <<"sty">>)
binDir == NM(root, <<"bin">>)
consumerDir == NM(root, <<"consumer">>)
\* a linked package: its real directory lies outside every node_modules
lnkLink == NM(root, <<"lnk">>)
lnkDir == <<"/", "w", "/", "lnk">>

\* the files that exist on disk
Files == {
    File(root, <<"main", ".", "js">>),
    File(consumerDir, <<"index", ".", "js">>),
    File(expDir, <<"a", ".", "js">>), File(expDir, <<"b", ".", "js">>),
    File(expDir, <<"c", ".", "mjs">>), File(expDir, <<"index", ".", "js">>),
    File(strDir, <<"main", ".", "js">>), File(strDir, <<"a", ".", "js">>),
    File(plainDir, <<"x", ".", "js">>), File(plainDir, <<"y", ".", "js">>),
    File(plainDir, <<"stub", ".", "js">>), File(plainDir, <<"index", ".", "cjs">>),
    File(plainDir, <<"t", ".", "css">>),
    File(barDir, <<"index", ".", "js">>), File(barDir, <<"x", ".", "ts">>),
    File(styDir, <<"style", ".", "css">>),
    File(binDir, <<"cli">>),
    File(lnkDir, <<"index", ".", "js">>),
    \* a file with no manifest at or above its directory
    <<"/", "x", "/", "y", ".", "js">>
}
\* fs.existsSync
existsSync(p) == p \in Files

\* package.json contents, by the real directory of the package
NoData == [name |-> <<>>, exports |-> Undef, browser |-> Undef, main |-> <<>>,
           peerDependencies |-> {}, peerOptional |-> {}, type |-> "commonjs",
           sideEffects |-> TRUE]
\* an exports target: the first entry whose condition is active wins
Target(cond, to) == [cond |-> cond, to |-> to]
Manifests ==
    (root :> [NoData EXCEPT !.name = <<"proj">>,
                            !.peerDependencies = {<<"opt">>},
                            !.peerOptional = {<<"opt">>}])
 @@ (consumerDir :> [NoData EXCEPT !.name = <<"consumer">>,
                            !.main = <<"index", ".", "js">>,
                            !.peerDependencies = {<<"opt">>, <<"req">>, <<"fs">>, <<NUL, "virt">>,
                                                  <<"http", ":", "/", "/", "x">>,
                                                  <<"@", "s", "/", "miss">>},
                            !.peerOptional = {<<"opt">>, <<"fs">>, <<NUL, "virt">>,
                                              <<"http", ":", "/", "/", "x">>, <<"foo">>,
                                              <<"@", "s", "/", "miss">>}])
 @@ (expDir :> [NoData EXCEPT !.name = <<"exp">>, !.type = "module",
        !.exports = [t |-> "object", map |->
            (<<".">> :> << Target("default", <<".", "/", "index", ".", "js">>) >>)
         @@ (<<".", "/", "a">> :> << Target("default", <<".", "/", "a", ".", "js">>) >>)
         @@ (<<".", "/", "c">> :> << Target("import", <<".", "/", "c", ".", "mjs">>) >>)
         @@ (<<".", "/", "d">> :> << Target("browser", <<".", "/", "gone", ".", "js">>),
                                     Target("default", <<".", "/", "a", ".", "js">>) >>)],
        !.browser = [t |-> "object", map |->
            (<<".", "/", "d">> :> Str(<<".", "/", "b", ".", "js">>))
         @@ (<<".", "/", "a">> :> False)]])
 @@ (strDir :> [NoData EXCEPT !.name = <<"str">>,
                              !.exports = Str(<<".", "/", "main", ".", "js">>)])
 @@ (plainDir :> [NoData EXCEPT !.name = <<"plain">>, !.main = <<"index", ".", "cjs">>,
        !.browser = [t |-> "object", map |->
            (<<".", "/", "x">> :> Str(<<".", "/", "y", ".", "js">>))
         @@ (<<".", "/", "stub">> :> False)]])
 @@ (barDir :> [NoData EXCEPT !.name = <<"@", "s", "/", "bar">>,
                              !.main = <<"index", ".", "js">>, !.sideEffects = FALSE])
 @@ (styDir :> [NoData EXCEPT !.name = <<"sty">>, !.main = <<"style", ".", "css">>])
 @@ (binDir :> [NoData EXCEPT !.name = <<"bin">>, !.main = <<"cli">>])
 @@ (lnkDir :> [NoData EXCEPT !.name = <<"lnk">>, !.main = <<"index", ".", "js">>])

\* node_modules entries: where each is installed and the real directory behind it
InstalledAt ==
    (expDir :> expDir) @@ (strDir :> strDir) @@ (plainDir :> plainDir) @@ (barDir :> barDir)
 @@ (styDir :> styDir) @@ (binDir :> binDir) @@ (consumerDir :> consumerDir)
 @@ (lnkLink :> lnkDir)

\* isObject(value) && !Array.isArray(value)
isObject(v) == v.t = "object"
\* ------------------------------------------- collaborators outside the file
\* split a subpath into its file part and its trailing ?query / #hash postfix
splitFileAndPostfix(p) == [file |-> cleanUrl(p), postfix |-> Slice(p, Len(cleanUrl(p)))]

\* the conditions active for a request: import or require, browser on web targets
activeConditions(options, targetWeb) ==
    {"default"} \cup (IF options.isRequire THEN {"require"} ELSE {"import"})
                \cup (IF targetWeb THEN {"browser"} ELSE {})
\* resolveExportsOrImports(data, key, options, targetWeb, 'exports'): the target of
\* the first active condition of the entry for key, undefined when key is not covered
resolveExportsOrImports(data, key, options, targetWeb) ==
    LET map == data.exports.map
        hits == IF key \in DOMAIN map
                THEN {i \in 1..Len(map[key]) : map[key][i].cond \in activeConditions(options, targetWeb)}
                ELSE {}
    IN IF hits = {} THEN Undef ELSE Str(map[key][Min(hits)].to)

\* mapWithBrowserField(relativePath, map): the entry for the path or for the path
\* without its extension; a string, false, or undefined when there is none
mapWithBrowserField(file, map) ==
    LET noExt == SubSeq(file, 1, Len(file) - Len(extname(file)))
    IN IF file \in DOMAIN map THEN map[file]
       ELSE IF noExt \in DOMAIN map THEN map[noExt]
       ELSE Undef

\* tryFsResolve(fsPath, options, tryIndex, targetWeb): the literal file, then the file
\* with each extension in order, then (tryIndex) index with each extension; the
\* postfix takes no part in the lookup and is put back on the result
tryFsResolve(fsPath, options, tryIndex, targetWeb) ==
    LET sp == splitFileAndPostfix(fsPath)
        exts == options.extensions
        withExt == {i \in 1..Len(exts) : existsSync(sp.file \o exts[i])}
        index == sp.file \o <<"/", "index">>
        indexExt == {i \in 1..Len(exts) : existsSync(index \o exts[i])}
    IN IF existsSync(sp.file) THEN Str(fsPath)
       ELSE IF withExt # {} THEN Str(sp.file \o exts[Min(withExt)] \o sp.postfix)
       ELSE IF tryIndex /\ indexExt # {} THEN Str(index \o exts[Min(indexExt)] \o sp.postfix)
       ELSE Undef

\* the directory and its ancestors, nearest first
RECURSIVE ancestors(_)
ancestors(dir) == IF dirname(dir) = dir \/ ~isAbsolute(dir) THEN <<dir>>
                  ELSE <<dir>> \o ancestors(dirname(dir))

\* the package object handed to the resolvers
Pkg(dir, real) == [dir |-> dir, real |-> real, data |-> Manifests[real]]
\* resolvePackageData(pkgId, basedir, preserveSymlinks, packageCache): the package
\* installed under the nearest node_modules of basedir or of an ancestor
resolvePackageData(pkgId, basedir, preserveSymlinks) ==
    LET up == ancestors(basedir)
        found == {i \in 1..Len(up) : NM(up[i], pkgId) \in DOMAIN InstalledAt}
        at == NM(up[Min(found)], pkgId)
    IN IF found = {} THEN Undef
       ELSE [t |-> "pkg", pkg |-> Pkg(IF preserveSymlinks THEN at ELSE InstalledAt[at],
                                      InstalledAt[at])]
\* findNearestPackageData(basedir, packageCache): the nearest manifest at or above basedir
findNearestPackageData(basedir) ==
    LET up == ancestors(basedir)
        found == {i \in 1..Len(up) : up[i] \in DOMAIN Manifests}
    IN IF found = {} THEN Undef
       ELSE [t |-> "pkg", pkg |-> Pkg(up[Min(found)], up[Min(found)])]
\* findNearestMainPackageData(basedir, packageCache): the nearest manifest with a name
findNearestMainPackageData(basedir) ==
    LET up == ancestors(basedir)
        found == {i \in 1..Len(up) : up[i] \in DOMAIN Manifests /\ Manifests[up[i]].name # <<>>}
    IN IF found = {} THEN Undef
       ELSE [t |-> "pkg", pkg |-> Pkg(up[Min(found)], up[Min(found)])]

\* isInNodeModules(id) = id.includes('node_modules')
isInNodeModules(id) == Includes(id, <<"node_modules">>)
\* injectQuery(url, query): append the query to the url
injectQuery(url, query) ==
    IF Positions(url, "?") = {} THEN url \o <<"?">> \o query ELSE url \o <<"&">> \o query
\* OPTIMIZABLE_ENTRY_RE = /\.[cm]?[jt]s$/ , also the test of isOptimizable
OPTIMIZABLE_ENTRY_RE(p) ==
    Len(p) >= 2 /\ p[Len(p) - 1] = "." /\ p[Len(p)] \in {"js", "mjs", "cjs", "ts", "mts", "cts"}
\* SPECIAL_QUERY_RE = /[?&](?:worker|sharedworker|raw|url)\b/
SPECIAL_QUERY_RE(p) ==
    \E i \in 1..(Len(p) - 1) : p[i] \in {"?", "&"} /\ p[i + 1] \in {"worker", "sharedworker", "raw", "url"}
\* ------------------------------------------------------ resolveDeepImport
\* the resolution cache of the package objects, keyed by package, id and target
CacheKey(pkg, id, targetWeb) == <<pkg.dir, id, targetWeb>>
getResolvedCache(rc, pkg, id, targetWeb) ==
    IF CacheKey(pkg, id, targetWeb) \in DOMAIN rc THEN rc[CacheKey(pkg, id, targetWeb)] ELSE Undef
setResolvedCache(rc, pkg, id, resolved, targetWeb) ==
    (CacheKey(pkg, id, targetWeb) :> resolved) @@ rc

\* the value of a template literal `${v}`
templateString(v) == IF IsStr(v) THEN v.s ELSE <<v.t>>

\* what a call leaves behind: its outcome, the collaborators it consulted in
\* order, and the two memo tables
Return(v) == [k |-> "return", v |-> v]
Throw(msg) == [k |-> "throw", msg |-> msg]
Done(out, consulted, rc, wri) == [out |-> out, consulted |-> consulted, rc |-> rc, wri |-> wri]

deepCacheNeverHit(cache) == FALSE
\* `if (cache) return cache`
deepCacheHit(cache) == Truthy(cache)

deepBranchAnyTarget(exportsField, browserField, targetWeb, options) ==
    IF options.browserField /\ isObject(browserField) THEN "browser"
    ELSE IF exportsField # Undef THEN "exports"
    ELSE "plain"
\* which mapping the subpath goes through:
\* `if (exportsField) ... else if (targetWeb && options.browserField && isObject(browserField))`
deepBranch(exportsField, browserField, targetWeb, options) ==
    IF exportsField # Undef THEN "exports"
    ELSE IF targetWeb /\ options.browserField /\ isObject(browserField) THEN "browser"
    ELSE "plain"

\* the message of the error thrown when the exports field does not expose the subpath
notDefinedMessage(relativeId, dir) ==
    <<"Package", " ", "subpath", " ", "'">> \o templateString(relativeId)
    \o <<"'", " ", "is", " ", "not", " ", "defined", " ", "by", " ", "\"", "exports", "\"", " ", "in", " ">>
    \o join(dir, <<"package", ".", "json">>) \o <<".">>

deepFsStepNoCache(id, pkg, targetWeb, options, relativeId, before, rc, wri) ==
    LET resolved == tryFsResolve(join(pkg.dir, relativeId.s), options,
                                 pkg.data.exports = Undef, targetWeb)
    IN IF ~Truthy(relativeId) THEN Done(Return(Undef), before, rc, wri)
       ELSE Done(Return(resolved), before \o <<"fs">>, rc, wri)
\* the tail of resolveDeepImport: `if (relativeId) { tryFsResolve ... setResolvedCache }`
deepFsStep(id, pkg, targetWeb, options, relativeId, before, rc, wri) ==
    LET resolved == tryFsResolve(join(pkg.dir, relativeId.s), options,
                                 pkg.data.exports = Undef, targetWeb)
    IN IF ~Truthy(relativeId) THEN Done(Return(Undef), before, rc, wri)
       ELSE IF Truthy(resolved)
            THEN Done(Return(resolved), before \o <<"fs">>,
                      setResolvedCache(rc, pkg, id, resolved, targetWeb), wri)
       ELSE Done(Return(Undef), before \o <<"fs">>, rc, wri)

resolveDeepImport(id, pkg, targetWeb, options, rc, wri) ==
    LET cache == getResolvedCache(rc, pkg, id, targetWeb)
        exportsField == pkg.data.exports
        browserField == pkg.data.browser
        branch == deepBranch(exportsField, browserField, targetWeb, options)
        sp == splitFileAndPostfix(id)
        exportsId == resolveExportsOrImports(pkg.data, sp.file, options, targetWeb)
        \* relativeId after the exports block
        viaExports == IF isObject(exportsField)
                      THEN (IF exportsId # Undef THEN Str(exportsId.s \o sp.postfix) ELSE Undef)
                      ELSE Undef
        asked == IF isObject(exportsField) THEN <<"exports">> ELSE <<>>
        mapped == mapWithBrowserField(sp.file, browserField.map)
    IN IF deepCacheHit(cache) THEN Done(Return(cache), <<>>, rc, wri)
       ELSE IF branch = "exports"
            THEN (IF ~Truthy(viaExports)
                  THEN Done(Throw(notDefinedMessage(viaExports, pkg.dir)), asked, rc, wri)
                  ELSE deepFsStep(id, pkg, targetWeb, options, viaExports, asked, rc, wri))
       ELSE IF branch = "browser"
            THEN (IF Truthy(mapped)
                  THEN deepFsStep(id, pkg, targetWeb, options, Str(mapped.s \o sp.postfix),
                                  <<"browser">>, rc, wri)
                  ELSE IF mapped = False
                  THEN Done(Return(Str(browserExternalId)), <<"browser">>, rc,
                            (<<pkg.dir, id>> :> Str(browserExternalId)) @@ wri)
                  ELSE deepFsStep(id, pkg, targetWeb, options, Str(id), <<"browser">>, rc, wri))
       ELSE deepFsStep(id, pkg, targetWeb, options, Str(id), <<>>, rc, wri)
\* resolvePackageEntry(id, pkg, targetWeb, options): the package's entry point, from the
\* exports field when there is one and from the main field otherwise; throws when the
\* entry cannot be resolved to a file
entryFailureMessage(id) ==
    <<"Failed", " ", "to", " ", "resolve", " ", "entry", " ", "for", " ", "package", " ", "\"">>
    \o id \o <<"\"">>
resolvePackageEntry(id, pkg, targetWeb, options, rc, wri) ==
    LET data == pkg.data
        entryPoint == IF isObject(data.exports)
                      THEN resolveExportsOrImports(data, <<".">>, options, targetWeb)
                      ELSE IF data.exports # Undef THEN data.exports
                      ELSE IF data.main # <<>> THEN Str(data.main)
                      ELSE Str(<<"index", ".", "js">>)
        asked == IF isObject(data.exports) THEN <<"exports">> ELSE <<>>
        resolved == tryFsResolve(join(pkg.dir, entryPoint.s), options, TRUE, targetWeb)
    IN IF ~Truthy(entryPoint) THEN Done(Throw(entryFailureMessage(id)), asked, rc, wri)
       ELSE IF Truthy(resolved) THEN Done(Return(resolved), asked \o <<"fs">>, rc, wri)
       ELSE Done(Throw(entryFailureMessage(id)), asked \o <<"fs">>, rc, wri)

\* --------------------------------------------------------- tryNodeResolve
chooseBasedirNoDedupe(pkgId, importer, options) ==
    IF /\ Truthy(importer)
       /\ isAbsolute(importer.s)
       /\ (importer.s[Len(importer.s)] = "*" \/ existsSync(cleanUrl(importer.s)))
    THEN dirname(importer.s)
    ELSE options.root
\* `dedupe?.includes(pkgId)` / importer absolute and (ends in '*' or exists) / root
chooseBasedir(pkgId, importer, options) ==
    IF pkgId \in options.dedupe THEN options.root
    ELSE IF /\ Truthy(importer)
            /\ isAbsolute(importer.s)
            /\ (importer.s[Len(importer.s)] = "*" \/ existsSync(cleanUrl(importer.s)))
         THEN dirname(importer.s)
    ELSE options.root

mayBePeerDepAtRoot(id, basedir, options) ==
    /\ ~isBuiltin(id)
    /\ ~Includes(id, <<NUL>>)
    /\ bareImportRE(id)
\* the guard of the optional-peer-dependency lookup
mayBePeerDep(id, basedir, options) ==
    /\ basedir # options.root
    /\ ~isBuiltin(id)
    /\ ~Includes(id, <<NUL>>)
    /\ bareImportRE(id)
\* mainPkg.peerDependencies?.[id] && mainPkg.peerDependenciesMeta?.[id]?.optional
isOptionalPeer(id, mainPkg) ==
    id \in mainPkg.peerDependencies /\ id \in mainPkg.peerOptional
\* the result of tryNodeResolve when the package is not found
notFoundResult(id, basedir, options) ==
    LET main == findNearestMainPackageData(basedir)
    IN IF mayBePeerDep(id, basedir, options) /\ main # Undef /\ isOptionalPeer(id, main.pkg.data)
       THEN Return([id |-> optionalPeerDepId \o <<":">> \o id \o <<":">> \o main.pkg.data.name,
                    external |-> FALSE, moduleSideEffects |-> "unset"])
       ELSE Return(Undef)
\* the resolver for the id: `deepMatch ? resolveDeepImport : resolvePackageEntry`
resolveId(deep, id, pkg, targetWeb, options, rc, wri) ==
    IF deep THEN resolveDeepImport(id, pkg, targetWeb, options, rc, wri)
    ELSE resolvePackageEntry(id, pkg, targetWeb, options, rc, wri)

\* the record of one call of the resolver: its arguments, the cache entry it found,
\* its outcome and the collaborators it consulted
Call(deep, id, pkg, targetWeb, options, rc, d) ==
    [fn |-> IF deep THEN "resolveDeepImport" ELSE "resolvePackageEntry",
     id |-> id, dir |-> pkg.dir, real |-> pkg.real, targetWeb |-> targetWeb, options |-> options,
     cached |-> getResolvedCache(rc, pkg, id, targetWeb),
     out |-> d.out, consulted |-> d.consulted]

\* the options of the second attempt
esmOptions(options) ==
    [options EXCEPT !.isRequire = FALSE, !.mainFields = DEFAULT_MAIN_FIELDS,
                    !.extensions = DEFAULT_EXTENSIONS]

rethrowAlways(options) == TRUE
\* `catch (err) { if (!options.tryEsmOnly) throw err }`
rethrowFirst(options) == ~options.tryEsmOnly
\* `if (!resolved && options.tryEsmOnly)`
secondAttempt(resolved, options) == ~Truthy(resolved) /\ options.tryEsmOnly

\* lines 380-401: the attempts.  resolved is the path found, undefined or a thrown
\* error (from |-> the attempt that threw it)
Attempted(resolved, calls, d) == [resolved |-> resolved, calls |-> calls, rc |-> d.rc, wri |-> d.wri]
secondOf(deep, unresolvedId, pkg, targetWeb, options, rc, c1, a1) ==
    Bind(resolveId(deep, unresolvedId, pkg, targetWeb, esmOptions(options), a1.rc, a1.wri),
         LAMBDA a2 :
            Attempted(IF a2.out.k = "throw"
                      THEN [k |-> "throw", msg |-> a2.out.msg, from |-> 2]
                      ELSE Return(a2.out.v),
                      <<c1, Call(deep, unresolvedId, pkg, targetWeb, esmOptions(options), a1.rc, a2)>>,
                      a2))
attempts(deep, unresolvedId, pkg, targetWeb, options, rc, wri) ==
    Bind(resolveId(deep, unresolvedId, pkg, targetWeb, options, rc, wri),
         LAMBDA a1 :
            LET c1 == Call(deep, unresolvedId, pkg, targetWeb, options, rc, a1)
                first == IF a1.out.k = "throw" THEN Undef ELSE a1.out.v
            IN IF a1.out.k = "throw" /\ rethrowFirst(options)
               THEN Attempted([k |-> "throw", msg |-> a1.out.msg, from |-> 1], <<c1>>, a1)
               ELSE IF secondAttempt(first, options)
               THEN secondOf(deep, unresolvedId, pkg, targetWeb, options, rc, c1, a1)
               ELSE Attempted(Return(first), <<c1>>, a1))

\* a result of tryNodeResolve
Resolved(id, external, moduleSideEffects) ==
    [id |-> id, external |-> external, moduleSideEffects |-> moduleSideEffects]
hasSideEffects(pkg) == IF pkg.data.sideEffects THEN "true" ELSE "false"

nonJsExtNever(resolvedExt) == FALSE
\* `resolvedExt && resolvedExt !== '.js' && resolvedExt !== '.mjs' && resolvedExt !== '.cjs'`
nonJsExt(resolvedExt) ==
    /\ resolvedExt # <<>>
    /\ resolvedExt # <<".", "js">>
    /\ resolvedExt # <<".", "mjs">>
    /\ resolvedExt # <<".", "cjs">>

\* resolved.id.slice(resolved.id.indexOf(id)); indexOf is -1 when id does not occur
sliceFromId(resolvedId, id) ==
    IF Includes(resolvedId, id) THEN Slice(resolvedId, Min(Occurrences(resolvedId, id)) - 1)
    ELSE Slice(resolvedId, Len(resolvedId) - 1)

\* processResult, lines 403-427
processResult(resolved, id, deep, pkg, externalize, allowLinkedExternal) ==
    LET resolvedExt == extname(resolved.id)
        resolvedId == IF deep /\ pkg.data.exports = Undef /\ extname(id) # resolvedExt
                      THEN sliceFromId(resolved.id, id) ELSE id
    IN IF ~externalize THEN resolved
       ELSE IF ~allowLinkedExternal /\ ~isInNodeModules(resolved.id) THEN resolved
       ELSE IF nonJsExt(resolvedExt) THEN resolved
       ELSE [resolved EXCEPT !.id = resolvedId, !.external = TRUE]

\* `!options.idOnly && ((!options.scan && isBuild && !depsOptimizer) || externalize)`
takesProcessResult(options, depsOptimizer, externalize) ==
    ~options.idOnly /\ ((~options.scan /\ options.isBuild /\ depsOptimizer = Undef) \/ externalize)

\* lines 443-448: the import is returned as it is, pre-bundling does not apply
plainReturn(resolved, options, depsOptimizer) ==
    ~options.ssrOptimizeCheck
    /\ (~isInNodeModules(resolved) \/ depsOptimizer = Undef \/ options.scan)

isJsType(resolved, depsOptimizer) == OPTIMIZABLE_ENTRY_RE(resolved)

skipOptimizationInSsrDev(id, pkgId, importer, resolved, options, depsOptimizer, ssr) ==
    LET ext == extname(resolved)
        exclude == IF options.ssrOptimizeCheck THEN options.ssrExclude
                   ELSE IF depsOptimizer = Undef THEN {} ELSE depsOptimizer.exclude
        include == IF options.ssrOptimizeCheck THEN options.ssrInclude
                   ELSE IF depsOptimizer = Undef THEN {} ELSE depsOptimizer.include
        nearest == findNearestPackageData(dirname(resolved))
    IN \/ ~isJsType(resolved, depsOptimizer)
       \/ (Truthy(importer) /\ isInNodeModules(importer.s))
       \/ pkgId \in exclude
       \/ id \in exclude
       \/ SPECIAL_QUERY_RE(resolved)
       \/ (/\ ssr
           /\ ~(\/ ext = <<".", "cjs">>
                \/ (ext = <<".", "js">> /\ (nearest = Undef \/ nearest.pkg.data.type # "module")))
           /\ ~(pkgId \in include \/ id \in include))
\* lines 465-483
skipOptimization(id, pkgId, importer, resolved, options, depsOptimizer, ssr) ==
    LET ext == extname(resolved)
        exclude == IF options.ssrOptimizeCheck THEN options.ssrExclude
                   ELSE IF depsOptimizer = Undef THEN {} ELSE depsOptimizer.exclude
        include == IF options.ssrOptimizeCheck THEN options.ssrInclude
                   ELSE IF depsOptimizer = Undef THEN {} ELSE depsOptimizer.include
        nearest == findNearestPackageData(dirname(resolved))
    IN \/ ~isJsType(resolved, depsOptimizer)
       \/ (Truthy(importer) /\ isInNodeModules(importer.s))
       \/ pkgId \in exclude
       \/ id \in exclude
       \/ SPECIAL_QUERY_RE(resolved)
       \/ (~options.ssrOptimizeCheck /\ ~options.isBuild /\ ssr)
       \/ (/\ ssr
           /\ ~(\/ ext = <<".", "cjs">>
                \/ (ext = <<".", "js">> /\ (nearest = Undef \/ nearest.pkg.data.type # "module")))
           /\ ~(pkgId \in include \/ id \in include))

\* depsOptimizer.getOptimizedDepId(depsOptimizer.registerMissingImport(id, resolved))
optimizedDepId(id, resolved) == <<"/", "p", "/", "node_modules", "/", ".", "vite", "/", "deps", "/">> \o id
\* lines 429-521: from the resolved path to the result, with the calls made on the
\* pre-bundling coordinator
Shaped(result, coord) == [result |-> result, coord |-> coord]
finish(r, pkgId, deep, pkg, resolved) ==
    LET options == r.options
        dep == r.depsOptimizer
        skip == skipOptimization(r.id, pkgId, r.importer, resolved, options, dep, r.ssr)
        versioned == IF ~options.isBuild /\ dep.browserHash # <<>> /\ isJsType(resolved, dep)
                     THEN injectQuery(resolved, <<"v", "=">> \o dep.browserHash)
                     ELSE resolved
        sideEffects == IF ~options.idOnly /\ ~options.scan /\ options.isBuild
                       THEN hasSideEffects(pkg) ELSE "unset"
    IN IF takesProcessResult(options, dep, r.externalize)
       THEN Shaped(processResult(Resolved(resolved, FALSE, hasSideEffects(pkg)), r.id, deep, pkg,
                                 r.externalize, r.allowLinkedExternal), <<>>)
       ELSE IF plainReturn(resolved, options, dep)
       THEN Shaped(Resolved(resolved, FALSE, "unset"), <<>>)
       ELSE IF options.ssrOptimizeCheck
       THEN Shaped(Resolved(IF skip THEN injectQuery(resolved, <<"__vite_skip_optimization">>)
                            ELSE resolved, FALSE, "unset"), <<>>)
       ELSE IF skip
       THEN Shaped(Resolved(versioned, FALSE, sideEffects), <<>>)
       ELSE Shaped(Resolved(optimizedDepId(r.id, resolved), FALSE, sideEffects),
                   <<"registerMissingImport", "getOptimizedDepId">>)

\* tryNodeResolve(id, importer, options, targetWeb, depsOptimizer, ssr, externalize,
\* allowLinkedExternal) on the memo tables rc and wri
Trace(r, pkgId, basedir, found, calls, resolved, coord, result) ==
    [op |-> "tryNodeResolve", req |-> r, pkgId |-> pkgId, basedir |-> basedir, found |-> found,
     calls |-> calls, resolved |-> resolved, coord |-> coord, result |-> result]
Ran(l, rc, wri) == [last |-> l, rc |-> rc, wri |-> wri]
\* lines 380-521, once the package is found
resolveFound(r, deep, pkgId, basedir, pkg, rc, wri) ==
    Bind(attempts(deep, IF deep THEN <<".">> \o Slice(r.id, Len(pkgId)) ELSE pkgId, pkg,
                  r.targetWeb, r.options, rc, wri),
         LAMBDA att :
            IF att.resolved.k = "throw"
            THEN Ran(Trace(r, pkgId, basedir, TRUE, att.calls, Undef, <<>>, att.resolved),
                     att.rc, att.wri)
            ELSE IF ~Truthy(att.resolved.v)
            THEN Ran(Trace(r, pkgId, basedir, TRUE, att.calls, Undef, <<>>, Return(Undef)),
                     att.rc, att.wri)
            ELSE Bind(finish(r, pkgId, deep, pkg, att.resolved.v.s),
                      LAMBDA fin :
                        Ran(Trace(r, pkgId, basedir, TRUE, att.calls, att.resolved.v, fin.coord,
                                  Return(fin.result)), att.rc, att.wri)))
tryNodeResolve(r, rc, wri) ==
    Bind(IF deepMatch(r.id) THEN deepMatchGroup(r.id) ELSE r.id,
         LAMBDA pkgId :
            Bind(chooseBasedir(pkgId, r.importer, r.options),
                 LAMBDA basedir :
                    Bind(resolvePackageData(pkgId, basedir, r.options.preserveSymlinks),
                         LAMBDA found :
                            IF found = Undef
                            THEN Ran(Trace(r, pkgId, basedir, FALSE, <<>>, Undef, <<>>,
                                           notFoundResult(r.id, basedir, r.options)), rc, wri)
                            ELSE resolveFound(r, deepMatch(r.id), pkgId, basedir, found.pkg,
                                              rc, wri))))

\* ------------------------------------------------- loadConfigFromBundledFile
\* The code of a module: the files it requires in order, whether running it throws,
\* and whether its exports carry __esModule.
Code(id, requires, throws, esModule) ==
    [id |-> id, requires |-> requires, throws |-> throws, esModule |-> esModule]
JsExt == <<".", "js">>
configJs == File(root, <<"vite", ".", "config", ".", "js">>)
configTs == File(root, <<"vite", ".", "config", ".", "ts">>)
configMjs == File(root, <<"vite", ".", "config", ".", "mjs">>)
configJson == File(root, <<"conf", ".", "json">>)
\* a config file reached through a symbolic link
configLink == File(root, <<"link", ".", "config", ".", "js">>)
configReal == <<"/", "w", "/", "real", ".", "config", ".", "js">>
\* a config file removed before it is loaded
configMissing == File(root, <<"gone", ".", "config", ".", "js">>)
depJs == File(root, <<"dep", ".", "js">>)
badJs == File(root, <<"bad", ".", "js">>)
\* what the files on disk hold, by real path
OnDisk ==
    (configJs :> Code("source", <<>>, FALSE, FALSE))
    @@ (configTs :> Code("source", <<>>, TRUE, FALSE))
    @@ (configMjs :> Code("source", <<>>, TRUE, FALSE))
    @@ (configJson :> Code("source", <<>>, FALSE, FALSE))
    @@ (configReal :> Code("source", <<>>, FALSE, FALSE))
    @@ (depJs :> Code("dep", <<>>, FALSE, FALSE))
    @@ (badJs :> Code("bad", <<>>, TRUE, FALSE))
\* fsp.realpath, and the real path _require.resolve gives; undefined for no file
realpath(f) ==
    IF f = configLink THEN Str(configReal)
    ELSE IF f \in DOMAIN OnDisk THEN Str(f) ELSE Undef

\* the handlers of _require.extensions: a loader of Node, or the function installed
\* at line 290 with the variables it closes over
DefaultLoader(ext) == [k |-> "default", ext |-> ext]
Override(realFileName, bundledCode, defaultLoader) ==
    [k |-> "override", realFileName |-> realFileName, bundledCode |-> bundledCode,
     defaultLoader |-> defaultLoader]
DefaultExtensions ==
    [e \in {JsExt, <<".", "json">>, <<".", "node">>} |-> DefaultLoader(e)]
\* `extension in _require.extensions ? extension : '.js'`
loaderExtOf(extension, exts) == IF extension \in DOMAIN exts THEN extension ELSE JsExt

\* the state a require runs on, with the record of which handler compiled what
Traced(st, filename, by, code) ==
    [st EXCEPT !.trace = Append(@, [file |-> filename, by |-> by, code |-> code])]
RECURSIVE requireFile(_, _)
RECURSIVE requireAll(_, _)
RECURSIVE compile(_, _)
RECURSIVE invoke(_, _, _)
\* the handler h called with (module, filename)
invoke(h, filename, st) ==
    IF h.k = "override"
    THEN IF filename = h.realFileName
         THEN compile(h.bundledCode, Traced(st, filename, "bundled", h.bundledCode))
         ELSE invoke(h.defaultLoader, filename, st)
    ELSE compile(OnDisk[filename], Traced(st, filename, "default", OnDisk[filename]))
\* module._compile(code, filename): the code runs, requiring its dependencies first
compile(code, st) ==
    Bind(requireAll(code.requires, st),
         LAMBDA s : IF s.threw THEN s ELSE [s EXCEPT !.threw = code.throws])
requireAll(files, st) ==
    IF files = <<>> \/ st.threw THEN st
    ELSE requireAll(Tail(files), requireFile(Head(files), st))
\* _require(f) for a file that exists: a cached module is returned as it is, else the
\* handler of the file's extension loads it; a module that threw is not kept
requireFile(f, st) ==
    LET real == realpath(f).s
        ext == loaderExtOf(extname(real), st.extensions)
    IN IF real \in st.cache THEN st
       ELSE Bind(invoke(st.extensions[ext], real, [st EXCEPT !.cache = @ \cup {real}]),
                 LAMBDA s : IF s.threw THEN [s EXCEPT !.cache = @ \ {real}] ELSE s)
\* the exports of the module compiled from code, and `raw.__esModule ? raw.default : raw`
Exports(code) == [t |-> "exports", of |-> code.id, esModule |-> code.esModule]
DefaultOf(raw) == [t |-> "default", of |-> raw.of]
unwrap(raw) == IF raw.esModule THEN DefaultOf(raw) ELSE raw
\* the code the handlers compiled for file during a require
CompiledFor(trace, file) ==
    trace[CHOOSE i \in 1..Len(trace) : trace[i].file = file].code

\* `${Date.now()}-${Math.random()...}`: a name no other call gets
Stamps == <<"t1", "t2", "t3", "t4">>
\* a call of loadConfigFromBundledFile and where it stands
NewLoad(fileName, bundledCode, isESM, ticket) ==
    [fileName |-> fileName, bundledCode |-> bundledCode, isESM |-> isESM,
     pos |-> IF isESM THEN "writeFile" ELSE "realpath",
     fileNameTmp |-> fileName \o <<".", "timestamp", "-", Stamps[ticket], ".", "mjs">>,
     loaderExt |-> <<>>, before |-> Undef, after |-> Undef, trace |-> <<>>,
     result |-> Return(Undef)]
Finished(c, loaderExt, before, after, trace, result) ==
    [c EXCEPT !.pos = "done", !.loaderExt = loaderExt, !.before = before,
              !.after = after, !.trace = trace, !.result = result]
\* line 300, reached only when _require(fileName) returned
restoreLoader(installed, loaderExt, defaultLoader, threw) ==
    IF threw THEN installed ELSE [installed EXCEPT ![loaderExt] = defaultLoader]
\* lines 288-301, run without suspension once realpath has resolved
cjsBlock(c, realFileName, exts, cache) ==
    LET loaderExt == loaderExtOf(extname(c.fileName), exts)
        defaultLoader == exts[loaderExt]
        installed == [exts EXCEPT ![loaderExt] =
                          Override(realFileName, c.bundledCode, defaultLoader)]
        cleared == cache \ {realpath(c.fileName).s}
    IN Bind(requireFile(c.fileName, [extensions |-> installed, cache |-> cleared,
                                     trace |-> <<>>, threw |-> FALSE]),
            LAMBDA st :
              Bind(restoreLoader(st.extensions, loaderExt, defaultLoader, st.threw),
                   LAMBDA after :
                     [extensions |-> after, cache |-> st.cache,
                      call |-> Finished(c, loaderExt, defaultLoader, after[loaderExt],
                                        st.trace,
                                        IF st.threw THEN Throw(<<"load">>)
                                        ELSE Return(unwrap(Exports(
                                                 CompiledFor(st.trace, realFileName)))))]))

\* ------------------------------------------------------------------ state
VARIABLES
    resolvedCache,        \* the entries written by setResolvedCache
    webResolvedImports,   \* the memo written for browser-external subpaths
    last,                 \* the last call of tryNodeResolve: arguments, trace, result
    pending,              \* requests issued by the module-graph walker and not yet run
    issued,               \* the number of requests the walker has issued
    computations,         \* per cache key, what each call of resolveDeepImport did
    extensions,           \* _require.extensions: the process-wide loader table
    requireCache,         \* _require.cache: the real paths of the modules loaded
    tmpFiles,             \* the temporary .mjs files on disk
    loads                 \* the calls of loadConfigFromBundledFile, in the order made
resolverVars == <<resolvedCache, webResolvedImports, last, pending, issued, computations>>
loaderVars == <<extensions, requireCache, tmpFiles, loads>>
vars == <<resolvedCache, webResolvedImports, last, pending, issued, computations,
          extensions, requireCache, tmpFiles, loads>>

NoLast == [op |-> "none", req |-> Undef, pkgId |-> <<>>, basedir |-> <<>>, found |-> FALSE,
           calls |-> <<>>, resolved |-> Undef, coord |-> <<>>, result |-> Return(Undef)]

Init ==
    /\ resolvedCache = <<>>
    /\ webResolvedImports = <<>>
    /\ last = NoLast
    /\ pending = <<>>
    /\ issued = 0
    /\ computations = <<>>
    /\ extensions = DefaultExtensions
    /\ requireCache = {}
    /\ tmpFiles = {}
    /\ loads = <<>>

\* one synchronous run of tryNodeResolve on the program state
Run(r) ==
    \E t \in {tryNodeResolve(r, resolvedCache, webResolvedImports)} :
        /\ resolvedCache' = t.rc
        /\ webResolvedImports' = t.wri
        /\ last' = t.last
\* ----------------------------------------------------------------- inputs
RequireExtensions == << <<".", "cjs">>, <<".", "js">> >>
RequireMainFields == << <<"main">> >>
BaseOptions ==
    [root |-> root, dedupe |-> {}, isBuild |-> FALSE, preserveSymlinks |-> FALSE,
     tryEsmOnly |-> FALSE, idOnly |-> FALSE, scan |-> FALSE, ssrOptimizeCheck |-> FALSE,
     ssrExclude |-> {}, ssrInclude |-> {}, browserField |-> TRUE, isRequire |-> FALSE,
     mainFields |-> DEFAULT_MAIN_FIELDS, extensions |-> DEFAULT_EXTENSIONS]
\* a require() call resolves with the require condition and its own fields
RequireOptions ==
    [BaseOptions EXCEPT !.isRequire = TRUE, !.mainFields = RequireMainFields,
                        !.extensions = RequireExtensions]
BaseRequest ==
    [id |-> <<>>, importer |-> Undef, options |-> BaseOptions, targetWeb |-> FALSE,
     depsOptimizer |-> Undef, ssr |-> FALSE, externalize |-> FALSE, allowLinkedExternal |-> TRUE]

\* a request for id under each of the given targets, option sets, retry and
\* browser-field settings
Requests(ids, webs, opts, esms, bfs) ==
    {[BaseRequest EXCEPT !.id = id, !.targetWeb = web,
                         !.options = [o EXCEPT !.tryEsmOnly = esm, !.browserField = bf]] :
        id \in ids, web \in webs, o \in opts, esm \in esms, bf \in bfs}
DeepRequests ==
    Requests({<<"exp", "/", "a">>}, {FALSE}, {BaseOptions, RequireOptions}, {FALSE}, {TRUE})
    \cup Requests({<<"exp", "/", "b">>}, {FALSE}, {BaseOptions, RequireOptions}, BOOLEAN, {TRUE})
    \cup Requests({<<"exp", "/", "c">>}, {FALSE}, {RequireOptions}, BOOLEAN, {TRUE})
    \cup Requests({<<"exp", "/", "c">>}, {FALSE}, {BaseOptions}, {FALSE}, {TRUE})
    \cup Requests({<<"exp", "/", "d">>}, {TRUE}, {BaseOptions}, BOOLEAN, {TRUE})
    \cup Requests({<<"str", "/", "a">>}, {FALSE}, {RequireOptions}, BOOLEAN, {TRUE})
    \cup Requests({<<"plain", "/", "x">>}, BOOLEAN, {BaseOptions}, {FALSE}, BOOLEAN)
    \cup Requests({<<"plain", "/", "stub">>}, BOOLEAN, {BaseOptions}, {FALSE}, {TRUE})
    \cup Requests({<<"plain", "/", "m">>}, {TRUE}, {BaseOptions}, BOOLEAN, {TRUE})

\* the bundler calls tryNodeResolve
Resolve(r) ==
    /\ Run(r)
    /\ UNCHANGED <<pending, issued, computations>>
    /\ UNCHANGED loaderVars

Next == \E r \in DeepRequests : Resolve(r)
Spec == Init /\ [][Next]_vars
\* bare ids of packages that are or are not installed, plain and scoped, with and
\* without a subpath, a builtin, a virtual id and a url
OrchIds == {
    <<"opt">>, <<"req">>, <<"foo">>, <<"fs">>, <<NUL, "virt">>, <<"http", ":", "/", "/", "x">>,
    <<"opt", "/", "sub">>, <<"@", "s", "/", "miss">>, <<"@", "s", "/", "miss", "/", "x">>,
    <<"@", "s", "/", "bar">>, <<"@", "s", "/", "bar", "/", "x">>, <<"plain">>
}
\* importers: absent, null, relative, absolute and existing (in a dependency, with a
\* query, at the root, outside every package), absolute and missing, and the
\* importer css processing marks with a trailing '*'
Importers == {
    Undef, Null,
    Str(<<"src", "/", "a", ".", "js">>),
    Str(File(consumerDir, <<"index", ".", "js">>)),
    Str(File(consumerDir, <<"index", ".", "js", "?", "v", "=", "1">>)),
    Str(File(consumerDir, <<"gone", ".", "js">>)),
    Str(File(consumerDir, <<"style", ".", "css", "*">>)),
    Str(File(root, <<"main", ".", "js">>)),
    Str(<<"/", "x", "/", "y", ".", "js">>)
}
DedupeLists == { {}, {<<"opt">>, <<"@", "s", "/", "bar">>} }
OrchRequests ==
    {[BaseRequest EXCEPT !.id = id, !.importer = imp, !.options = [BaseOptions EXCEPT !.dedupe = dd]] :
        id \in OrchIds, imp \in Importers, dd \in DedupeLists}
NextOrch == \E r \in OrchRequests : Resolve(r)
SpecOrch == Init /\ [][NextOrch]_vars

\* the pre-bundling coordinator of a dev server or of a build
Optimizer(exclude, include) ==
    [t |-> "object", exclude |-> exclude, include |-> include, browserHash |-> <<"h1">>]
\* externalization: every setting of externalize, allowLinkedExternal, isBuild, idOnly
\* and of the coordinator, for entries with a .js, .cjs, .css and no extension, a
\* linked package and two deep imports
ExternalIds == {
    <<"@", "s", "/", "bar">>, <<"plain">>, <<"sty">>, <<"bin">>, <<"lnk">>, <<"plain", "/", "x">>
}
ExternalRequests ==
    {[BaseRequest EXCEPT !.id = id, !.externalize = ext, !.allowLinkedExternal = linked,
                         !.depsOptimizer = dep,
                         !.options = [BaseOptions EXCEPT !.isBuild = build, !.idOnly = idOnly]] :
        id \in ExternalIds, ext \in BOOLEAN, linked \in BOOLEAN, build \in BOOLEAN,
        idOnly \in BOOLEAN, dep \in {Undef, Optimizer({}, {})}}
\* pre-bundling: every setting of ssr, isBuild, ssrOptimizeCheck and scan, with and
\* without a coordinator, imported from the project and from a dependency, with
\* and without include and exclude lists
Optimize(ids, importers, scans, deps) ==
    {[BaseRequest EXCEPT !.id = id, !.importer = imp, !.ssr = ssr, !.depsOptimizer = dep,
                         !.options = [BaseOptions EXCEPT !.isBuild = build, !.scan = scan,
                                                         !.ssrOptimizeCheck = check,
                                                         !.ssrInclude = {<<"exp">>}]] :
        id \in ids, imp \in importers, scan \in scans, dep \in deps,
        ssr \in BOOLEAN, build \in BOOLEAN, check \in BOOLEAN}
FromProject == Str(File(root, <<"main", ".", "js">>))
FromDependency == Str(File(consumerDir, <<"index", ".", "js">>))
OptimizeRequests ==
    Optimize({<<"@", "s", "/", "bar">>, <<"plain">>, <<"exp">>}, {FromProject}, BOOLEAN,
             {Undef, Optimizer({}, {})})
    \cup Optimize({<<"plain">>, <<"exp">>}, {FromProject}, {FALSE},
                  {Optimizer({<<"plain">>}, {<<"exp">>})})
    \cup Optimize({<<"@", "s", "/", "bar">>}, {FromDependency}, {FALSE}, {Optimizer({}, {})})
    \cup Optimize({<<"sty">>}, {FromProject}, {FALSE}, {Optimizer({}, {})})
NextPost == \E r \in ExternalRequests \cup OptimizeRequests : Resolve(r)
SpecPost == Init /\ [][NextPost]_vars

\* what a call of resolveDeepImport did: it returned the cache entry ("hit"), or it
\* computed the resolution and found a file, the browser-external id, nothing, or threw
Event(c) ==
    IF Truthy(c.cached) THEN "hit"
    ELSE IF c.out.k = "throw" THEN "throw"
    ELSE IF ~Truthy(c.out.v) THEN "none"
    ELSE IF c.out.v.s = browserExternalId THEN "external"
    ELSE "path"
KeyOf(c) == <<c.dir, c.id, c.targetWeb>>
RECURSIVE Logged(_, _)
Logged(log, calls) ==
    IF calls = <<>> THEN log
    ELSE LET c == Head(calls)
             old == IF KeyOf(c) \in DOMAIN log THEN log[KeyOf(c)] ELSE <<>>
         IN Logged(IF c.fn = "resolveDeepImport"
                   THEN (KeyOf(c) :> Append(old, Event(c))) @@ log ELSE log,
                   Tail(calls))

\* the module-graph walker resolves many specifiers in one pass: it issues requests
\* and each runs to its end, in any order, one at a time (tryNodeResolve is synchronous)
MaxIssued == 3
ConcRequests ==
    Requests({<<"exp", "/", "a">>, <<"exp", "/", "b">>}, {FALSE}, {BaseOptions}, {FALSE}, {TRUE})
    \cup Requests({<<"plain", "/", "x">>}, {TRUE}, {BaseOptions}, {FALSE}, BOOLEAN)
    \cup Requests({<<"plain", "/", "m">>, <<"plain", "/", "stub">>}, {TRUE}, {BaseOptions},
                  {FALSE}, {TRUE})
Add(bag, r) == IF r \in DOMAIN bag THEN [bag EXCEPT ![r] = @ + 1] ELSE (r :> 1) @@ bag
Remove(bag, r) == IF bag[r] = 1 THEN [x \in DOMAIN bag \ {r} |-> bag[x]]
                  ELSE [bag EXCEPT ![r] = @ - 1]
Issue(r) ==
    /\ issued < MaxIssued
    /\ issued' = issued + 1
    /\ pending' = Add(pending, r)
    /\ UNCHANGED <<resolvedCache, webResolvedImports, last, computations>>
    /\ UNCHANGED loaderVars
RunPending(r) ==
    /\ r \in DOMAIN pending
    /\ Run(r)
    /\ pending' = Remove(pending, r)
    /\ computations' = Logged(computations, last'.calls)
    /\ UNCHANGED issued
    /\ UNCHANGED loaderVars
NextConc ==
    \/ \E r \in ConcRequests : Issue(r)
    \/ \E r \in ConcRequests : RunPending(r)
SpecConc == Init /\ [][NextConc]_vars

\* the configuration loader: calls of loadConfigFromBundledFile, each suspended at
\* its awaits, in any interleaving
MaxLoads == 2
\* the caller enters loadConfigFromBundledFile; it runs to its first await
StartLoad(fileName, bundledCode, isESM) ==
    /\ Len(loads) < MaxLoads
    /\ loads' = Append(loads, NewLoad(fileName, bundledCode, isESM, Len(loads) + 1))
    /\ UNCHANGED <<extensions, requireCache, tmpFiles>>
    /\ UNCHANGED resolverVars
\* CommonJS: fsp.realpath settles, and the rest of the function runs
LoadCjs(i) ==
    /\ loads[i].pos = "realpath"
    /\ \E real \in {realpath(loads[i].fileName)} :
         IF real = Undef
         THEN /\ loads' = [loads EXCEPT ![i] = [@ EXCEPT !.pos = "done",
                                                        !.result = Throw(<<"ENOENT">>)]]
              /\ UNCHANGED <<extensions, requireCache>>
         ELSE \E t \in {cjsBlock(loads[i], real.s, extensions, requireCache)} :
                /\ extensions' = t.extensions
                /\ requireCache' = t.cache
                /\ loads' = [loads EXCEPT ![i] = t.call]
    /\ UNCHANGED tmpFiles
    /\ UNCHANGED resolverVars
\* ESM: fsp.writeFile settles and the dynamic import of the temporary file starts
WriteDone(i) ==
    /\ loads[i].pos = "writeFile"
    /\ tmpFiles' = tmpFiles \cup {loads[i].fileNameTmp}
    /\ loads' = [loads EXCEPT ![i].pos = "import"]
    /\ UNCHANGED <<extensions, requireCache>>
    /\ UNCHANGED resolverVars
\* ESM: the import settles; the finally block asks for the file to be removed
Imported(i) ==
    /\ loads[i].pos = "import"
    /\ loads' = [loads EXCEPT ![i] =
            [@ EXCEPT !.pos = "unlink",
                      !.result = IF loads[i].bundledCode.throws THEN Throw(<<"load">>)
                                 ELSE Return(DefaultOf(Exports(loads[i].bundledCode)))]]
    /\ UNCHANGED <<extensions, requireCache, tmpFiles>>
    /\ UNCHANGED resolverVars
\* ESM: fs.unlink completes
Unlinked(i) ==
    /\ loads[i].pos = "unlink"
    /\ tmpFiles' = tmpFiles \ {loads[i].fileNameTmp}
    /\ loads' = [loads EXCEPT ![i].pos = "done"]
    /\ UNCHANGED <<extensions, requireCache>>
    /\ UNCHANGED resolverVars

\* bundled configs: one that loads, one with __esModule that requires a dependency,
\* one that throws while it runs, one whose dependency throws
okCode == Code("cfg", <<>>, FALSE, FALSE)
esCode == Code("cfgEs", <<depJs>>, FALSE, TRUE)
throwCode == Code("cfgThrows", <<>>, TRUE, FALSE)
badDepCode == Code("cfgBadDep", <<badJs>>, FALSE, FALSE)
LoadInputs == {
    <<configJs, okCode, FALSE>>, <<configTs, esCode, FALSE>>,
    <<configLink, throwCode, FALSE>>, <<configJs, badDepCode, FALSE>>,
    <<configJson, okCode, FALSE>>, <<configMissing, okCode, FALSE>>,
    <<configMjs, okCode, TRUE>>, <<configMjs, throwCode, TRUE>>
}
NextLoad ==
    \/ \E in \in LoadInputs : StartLoad(in[1], in[2], in[3])
    \/ \E i \in DOMAIN loads : LoadCjs(i)
    \/ \E i \in DOMAIN loads : WriteDone(i)
    \/ \E i \in DOMAIN loads : Imported(i)
    \/ \E i \in DOMAIN loads : Unlinked(i)
SpecLoad == Init /\ [][NextLoad]_vars

\* ----------------------------------------------------------------- claims
\* the calls of resolveDeepImport made by the last tryNodeResolve
DeepCalls(l) == {l.calls[i] : i \in {j \in 1..Len(l.calls) : l.calls[j].fn = "resolveDeepImport"}}
\* the manifest of the package a call was made on
DataOf(c) == Manifests[c.real]
\* the exports resolver does not cover the subpath of the call, or the field is no object
NotExposed(c) ==
    /\ DataOf(c).exports # Undef
    /\ \/ ~isObject(DataOf(c).exports)
       \/ resolveExportsOrImports(DataOf(c), splitFileAndPostfix(c.id).file, c.options,
                                  c.targetWeb) = Undef

\* C1: a call of resolveDeepImport for a package with an exports field and a subpath
\* the exports resolver does not cover throws and never calls tryFsResolve.
C1_NotExposedThrows ==
    \A c \in DeepCalls(last) :
        NotExposed(c) => c.out.k = "throw" /\ ~Includes(c.consulted, <<"fs">>)

\* C2: the browser-field mapper is consulted only when the package has no exports
\* field and the target is web.
C2_BrowserOnlyWithoutExports ==
    \A c \in DeepCalls(last) :
        Includes(c.consulted, <<"browser">>) => DataOf(c).exports = Undef /\ c.targetWeb
\* the mapper was consulted for a web request on a package without exports field
C2_Witness ==
    \E c \in DeepCalls(last) :
        /\ c.consulted = <<"browser", "fs">>
        /\ c.targetWeb /\ DataOf(c).exports = Undef

\* two calls of resolveDeepImport with the same arguments
SameArgs(c, d) ==
    /\ c.fn = "resolveDeepImport" /\ d.fn = "resolveDeepImport"
    /\ c.id = d.id /\ c.dir = d.dir /\ c.targetWeb = d.targetWeb /\ c.options = d.options
\* two calls of resolveDeepImport for the same package, subpath and target
SameKey(c, d) ==
    /\ c.fn = "resolveDeepImport" /\ d.fn = "resolveDeepImport"
    /\ c.id = d.id /\ c.dir = d.dir /\ c.targetWeb = d.targetWeb
\* the call returned the path of a file
ReturnedPath(c) == c.out.k = "return" /\ Truthy(c.out.v) /\ c.out.v.s # browserExternalId

C6_RetryOnlyEsm ==
    last.calls # <<>> =>
        LET c1 == last.calls[1]
            c2 == last.calls[2]
            o == last.req.options
        IN /\ c1.options = o
           /\ (c1.out.k = "throw" /\ ~o.tryEsmOnly) =>
                /\ Len(last.calls) = 1
                /\ last.result = [k |-> "throw", msg |-> c1.out.msg, from |-> 1]
           /\ (c1.out.k = "throw" /\ o.tryEsmOnly) =>
                /\ Len(last.calls) = 2
                /\ c2.fn = c1.fn /\ c2.id = c1.id /\ c2.dir = c1.dir /\ c2.targetWeb = c1.targetWeb
                /\ c2.options = [o EXCEPT !.isRequire = FALSE,
                                          !.mainFields = DEFAULT_MAIN_FIELDS,
                                          !.extensions = DEFAULT_EXTENSIONS]
                /\ (c2.out.k = "throw") =>
                        last.result = [k |-> "throw", msg |-> c2.out.msg, from |-> 2]
                /\ (c2.out.k = "return" /\ ~Truthy(c2.out.v)) => last.result = Return(Undef)
                /\ (c2.out.k = "return" /\ Truthy(c2.out.v)) =>
                        /\ last.resolved = c2.out.v
                        /\ last.result.k = "return" /\ last.result.v # Undef
           /\ (c1.out.k = "return" /\ Truthy(c1.out.v)) => Len(last.calls) = 1
\* the first attempt threw and the second, made with the ESM settings, found the file
C6_Witness ==
    /\ Len(last.calls) = 2
    /\ last.calls[1].out.k = "throw"
    /\ last.calls[1].options.isRequire
    /\ ~last.calls[2].options.isRequire
    /\ ReturnedPath(last.calls[2])
    /\ last.result.k = "return" /\ last.result.v # Undef

\* C10: the error resolveDeepImport throws for a subpath the exports field does not
\* define names the package's manifest and the subpath that was requested.
C10_MessageNamesSubpath ==
    \A c \in DeepCalls(last) :
        c.out.k = "throw" =>
            /\ Includes(c.out.msg, join(c.dir, <<"package", ".", "json">>))
            /\ Includes(c.out.msg, c.id)
\* the package-name part of a specifier: its first segment, or its first two
\* segments when it is scoped
PackageName(id) ==
    LET sl == Positions(id, "/")
        n == IF id[1] = "@" THEN 2 ELSE 1
        cut == {i \in sl : Cardinality({j \in sl : j <= i}) = n}
    IN IF cut = {} THEN id ELSE SubSeq(id, 1, Min(cut) - 1)
\* the directory an importer stands in
ImporterDir(importer) == dirname(importer.s)

\* C9 as stated: a deduped package is looked up from the project root; any other from
\* the importer's directory exactly when the importer is an absolute path that
\* exists, and from the project root otherwise.
C9_BasedirExistingImporter ==
    last.op = "tryNodeResolve" =>
        LET imp == last.req.importer
            o == last.req.options
        IN IF PackageName(last.req.id) \in o.dedupe THEN last.basedir = o.root
           ELSE IF Truthy(imp) /\ isAbsolute(imp.s) /\ existsSync(cleanUrl(imp.s))
                THEN last.basedir = ImporterDir(imp)
           ELSE last.basedir = o.root

\* C9 amended: a deduped package is looked up from the project root; any other from
\* the importer's directory exactly when the importer is an absolute path that ends
\* in '*' or that exists once its query is removed, and from the root otherwise.
C9_Basedir ==
    last.op = "tryNodeResolve" =>
        LET imp == last.req.importer
            o == last.req.options
        IN IF PackageName(last.req.id) \in o.dedupe THEN last.basedir = o.root
           ELSE IF /\ Truthy(imp) /\ isAbsolute(imp.s)
                   /\ (imp.s[Len(imp.s)] = "*" \/ existsSync(cleanUrl(imp.s)))
                THEN last.basedir = ImporterDir(imp)
           ELSE last.basedir = o.root
\* a package that is not deduped, imported from a css importer marked with '*' that
\* is no file on disk, was looked up from the importer's directory
C9_Witness ==
    /\ last.op = "tryNodeResolve"
    /\ last.req.id = <<"@", "s", "/", "bar", "/", "x">>
    /\ last.req.options.dedupe = {}
    /\ last.req.importer = Str(File(consumerDir, <<"style", ".", "css", "*">>))
    /\ last.basedir = consumerDir

\* C3: when the package is not found, the result is the optional-peer-dependency id
\* naming the import and the consumer if the base directory is not the project
\* root, the id is a bare specifier and no builtin, and the nearest manifest of the
\* consumer lists it in peerDependencies and marks it optional; it is NotFound in
\* every other case.
C3_OptionalPeer ==
    (last.op = "tryNodeResolve" /\ ~last.found) =>
        LET id == last.req.id
            consumer == findNearestMainPackageData(last.basedir)
        IN IF /\ last.basedir # last.req.options.root
              /\ bareImportRE(id) /\ ~isBuiltin(id)
              /\ consumer # Undef
              /\ id \in consumer.pkg.data.peerDependencies
              /\ id \in consumer.pkg.data.peerOptional
           THEN last.result =
                    Return(Resolved(<<"__vite", "-", "optional", "-", "peer", "-", "dep", ":">>
                                    \o id \o <<":">> \o consumer.pkg.data.name, FALSE, "unset"))
           ELSE last.result = Return(Undef)
\* an optional peer dependency that is not installed, imported from the consumer
C3_Witness ==
    /\ last.op = "tryNodeResolve" /\ ~last.found
    /\ last.basedir = consumerDir
    /\ last.result.k = "return" /\ last.result.v # Undef
    /\ last.result.v.id = <<"__vite", "-", "optional", "-", "peer", "-", "dep", ":", "opt", ":", "consumer">>
\* the last call resolved a file and returned a result for it
HasResult == last.op = "tryNodeResolve" /\ Truthy(last.resolved) /\ last.result.k = "return"
JsExts == { <<".", "js">>, <<".", "mjs">>, <<".", "cjs">> }

\* C7: registerMissingImport is never called when resolving for SSR in serve mode.
C7_NoRegisterInSsrDev ==
    (last.op = "tryNodeResolve" /\ last.req.ssr /\ ~last.req.options.isBuild) =>
        ~Includes(last.coord, <<"registerMissingImport">>)
\* an SSR import in serve mode, with a coordinator, of a CommonJS dependency that would
\* otherwise be pre-bundled: it is skipped and gets the version query
C7_Witness ==
    /\ HasResult
    /\ last.req.ssr /\ ~last.req.options.isBuild /\ ~last.req.options.ssrOptimizeCheck
    /\ last.req.depsOptimizer # Undef
    /\ last.req.id = <<"plain">>
    /\ last.result.v.id = File(plainDir, <<"index", ".", "cjs", "?", "v", "=", "h1">>)

\* tryNodeResolve took the externalization branch, lines 429-439
Externalizing ==
    /\ ~last.req.options.idOnly
    /\ \/ last.req.externalize
       \/ (~last.req.options.scan /\ last.req.options.isBuild /\ last.req.depsOptimizer = Undef)

CjsCompleted == {i \in DOMAIN loads : /\ ~loads[i].isESM /\ loads[i].pos = "done"
                                      /\ loads[i].before # Undef}
\* C11 as stated: after a call of loadConfigFromBundledFile for a CommonJS config has
\* completed, by returning or by throwing, the handler of the chosen extension is the
\* one installed before the call; and the override compiled the bundled code for the
\* config's real path only, every other file going to the default loader.
C11_LoaderRestored ==
    \A i \in CjsCompleted :
        LET c == loads[i]
            real == realpath(c.fileName).s
        IN /\ c.after = c.before
           /\ \A j \in 1..Len(c.trace) :
                /\ c.trace[j].by = "bundled" =>
                        c.trace[j].file = real /\ c.trace[j].code = c.bundledCode
                /\ c.trace[j].file # real => c.trace[j].by = "default"
====
